---- MODULE Spec2Model ----
(***************************************************************************)
(* A model of the fruit-classifier pipeline: the image sanitizer           *)
(* (preprocessing), the file collector, the dataset split, the image       *)
(* transforms, the training loop, the storage layout of the entry          *)
(* points, the label encoding and the dataset loading.  Each component     *)
(* has its own specification over the shared variables; the variables of   *)
(* the other components stay idle.                                         *)
(***************************************************************************)
EXTENDS Integers, Sequences, FiniteSets, TLC

VARIABLES
    fs,          \* sanitizer: the file system, [dirs, files]
    fs0,         \* sanitizer: the file system before the first pass
    runs,        \* sanitizer: number of passes of the entry point so far
    status,      \* sanitizer: "ok", or "error" once a pass has raised
    cleanAfter,  \* sanitizer: the clean tree's files after each pass
    unlinked,    \* sanitizer: every path handed to unlink()
    cfs,         \* collector: the file system get_image_paths reads
    rng,         \* collector: the state of the module-level generator `random`
    collected,   \* collector: what each call of get_image_paths returned
    data,        \* dataset builder: the samples, in the order of the paths
    emptyTrainRaises, \* dataset builder: the installed train_test_split
                 \* rejects a split that leaves the training set empty
    npRng,       \* dataset builder: the state of numpy's global generator
    splits,      \* dataset builder: what each call of get_model_input returned
    image,       \* transforms: the decoded image, [shape, lo, hi]
    trainTensor, \* transforms: <<the sample built for training>>, or <<>>
    predictTensor, \* transforms: <<the tensor handed to the model>>, or <<>>
    nSamples,    \* trainer: number of samples of the dataset
    epochs,      \* trainer: the epochs argument of train_model
    tpc,         \* trainer: where train_model is
    epoch,       \* trainer: epochs finished so far
    steps_done,  \* trainer: batches drawn in the running epoch
    total_steps, \* trainer: batches drawn since train_model started
    epoch_logs,  \* trainer: the metrics the running fit has logged
    history,     \* trainer: History.history, a sequence per metric
    model_dir_exists, \* trainer: generated_data/models is a directory
    artifact,    \* trainer: what model.h5 holds
    installRoot, \* layout: the directory that holds the fruit_classifier package
    launched,    \* layout: the entry points run so far, in order
    sanitizedDirs, \* layout: the directories the preprocessing entry point filled
    trainInputs, \* layout: the directories the training entry point read
    trainOutputs, \* layout: the files the training entry point writes to
    predictInputs, \* layout: the directories the prediction entry point samples
    labels,      \* label encoding: the label of each sample, in the data's order
    modelInput,  \* label encoding: <<what get_model_input returned>>, or <<>>
    n_classes,   \* label encoding: <<the class count handed to get_model>>, or <<>>
    dsFs,        \* dataset loading: the file system get_data_and_labels reads
    image_paths, \* dataset loading: the paths handed to get_data_and_labels
    loaded       \* dataset loading: <<what get_data_and_labels returned>>, or <<>>

sanVars == <<fs, fs0, runs, status, cleanAfter, unlinked>>
colVars == <<cfs, rng, collected>>
splitVars == <<data, emptyTrainRaises, npRng, splits>>
imgVars == <<image, trainTensor, predictTensor>>
trainVars == <<nSamples, epochs, tpc, epoch, steps_done, total_steps, epoch_logs,
               history, model_dir_exists, artifact>>
layVars == <<installRoot, launched, sanitizedDirs, trainInputs, trainOutputs,
             predictInputs>>
encVars == <<labels, modelInput, n_classes>>
dsVars == <<dsFs, image_paths, loaded>>
vars == <<sanVars, colVars, splitVars, imgVars, trainVars, layVars, encVars, dsVars>>

\* What a step of one component leaves alone: the other components.
sanOthers == <<colVars, splitVars, imgVars, trainVars, layVars, encVars,
                dsVars>>
colOthers == <<sanVars, splitVars, imgVars, trainVars, layVars, encVars,
                dsVars>>
splitOthers == <<sanVars, colVars, imgVars, trainVars, layVars, encVars,
                  dsVars>>
imgOthers == <<sanVars, colVars, splitVars, trainVars, layVars, encVars,
                dsVars>>
trainOthers == <<sanVars, colVars, splitVars, imgVars, layVars, encVars,
                  dsVars>>
encOthers == <<sanVars, colVars, imgVars, trainVars, layVars, dsVars>>
dsOthers == <<sanVars, colVars, splitVars, imgVars, trainVars, layVars, encVars>>
layOthers == <<sanVars, colVars, splitVars, imgVars, trainVars, encVars,
                dsVars>>

----------------------------------------------------------------------------
(* Each component at rest: the state of its variables under the            *)
(* specifications of the other components.                                 *)

\* The sanitizer before its entry point is started.
SanIdle ==
    /\ fs = [dirs |-> {}, files |-> <<>>]
    /\ fs0 = fs
    /\ runs = 0
    /\ status = "ok"
    /\ cleanAfter = <<>>
    /\ unlinked = {}

\* The collector before it is used.
ColIdle ==
    /\ cfs = [dirs |-> {}, files |-> <<>>]
    /\ rng = 0
    /\ collected = <<>>

\* The dataset builder before it is used.
SplitIdle ==
    /\ data = <<>>
    /\ emptyTrainRaises = FALSE
    /\ npRng = 0
    /\ splits = <<>>

\* The transforms before an image is read.
ImgIdle ==
    /\ image = [shape |-> <<0, 0, 0>>, lo |-> 0, hi |-> 0]
    /\ trainTensor = <<>>
    /\ predictTensor = <<>>

\* The metrics of a History: plot_training reads these four.
Metrics == {"loss", "val_loss", "acc", "val_acc"}

\* The trainer before train_model is called.
TrainIdle ==
    /\ nSamples = 0
    /\ epochs = 0
    /\ tpc = "idle"
    /\ epoch = 0
    /\ steps_done = 0
    /\ total_steps = 0
    /\ epoch_logs = {}
    /\ history = [m \in Metrics |-> <<>>]
    /\ model_dir_exists = FALSE
    /\ artifact = "none"

\* The label encoding before the training entry point builds it.
EncIdle ==
    /\ labels = <<>>
    /\ modelInput = <<>>
    /\ n_classes = <<>>

\* The dataset loading before get_data_and_labels is called.
DsIdle ==
    /\ dsFs = [dirs |-> {}, files |-> <<>>]
    /\ image_paths = <<>>
    /\ loaded = <<>>

\* The layout before any entry point is run.
LayIdle ==
    /\ installRoot = <<>>
    /\ launched = <<>>
    /\ sanitizedDirs = {}
    /\ trainInputs = {}
    /\ trainOutputs = {}
    /\ predictInputs = {}

----------------------------------------------------------------------------
(* Paths are sequences of names, as pathlib's Path.parts.                  *)

\* Every name of the model, in the order Python compares strings.
NameOrder ==
    <<"1.jpg", "2.jpg", "apple", "banana", "cleaned_data", "notes.txt", "raw_data">>

Rank(s) == CHOOSE i \in 1..Len(NameOrder) : NameOrder[i] = s

RECURSIVE PathLess(_, _)
\* p < q for two paths: pathlib compares the parts lexicographically.
PathLess(p, q) ==
    IF p = <<>> THEN q # <<>>
    ELSE IF q = <<>> THEN FALSE
    ELSE IF Head(p) # Head(q) THEN Rank(Head(p)) < Rank(Head(q))
    ELSE PathLess(Tail(p), Tail(q))

RECURSIVE SortSet(_)
\* sorted(...) of a collection of distinct paths.
SortSet(S) ==
    IF S = {} THEN <<>>
    ELSE LET m == CHOOSE x \in S : \A y \in S : x = y \/ PathLess(x, y)
         IN <<m>> \o SortSet(S \ {m})

Range(s) == {s[i] : i \in 1..Len(s)}

\* sorted(listing): the order of the listing does not matter.
sorted(listing) == SortSet(Range(listing))

\* p lies strictly below directory d.
IsUnder(p, d) == Len(p) > Len(d) /\ SubSeq(p, 1, Len(d)) = d

\* The path below dst that mirrors p below src.
Rebase(p, src, dst) == dst \o SubSeq(p, Len(src) + 1, Len(p))

----------------------------------------------------------------------------
(* The file system of the sanitizer.                                       *)

Classes == {"apple", "banana"}
FileNames == {"1.jpg", "2.jpg"}
Contents == {"image", "junk"}

raw_dir == <<"raw_data">>
cleaned_dir == <<"cleaned_data">>

\* cv2.imread(path) is not None: the content decodes as an image.
Decodes(content) == content = "image"

\* path.is_file()
is_file(f, p) == p \in DOMAIN f.files

\* dir.glob('**/*'): everything below dir, directories and files.
GlobAll(f, dir) ==
    IF dir \notin f.dirs THEN {}
    ELSE {p \in f.dirs \cup DOMAIN f.files : IsUnder(p, dir)}

\* cleaned_dir.mkdir(parents=True, exist_ok=True)
mkdir(f, dir) == [f EXCEPT !.dirs = @ \cup {dir}]

\* The raw trees: each class directory absent, or present with any files,
\* and possibly a stray file directly in the raw directory.
RawTrees ==
    LET ClassFiles == {<<c, n>> : c \in Classes, n \in FileNames}
        StrayFiles == {<<"notes.txt">>}
    IN  { [dirs  |-> {raw_dir} \cup {raw_dir \o <<c>> : c \in ds},
           files |-> [p \in {raw_dir \o q : q \in DOMAIN g} |->
                         g[SubSeq(p, 2, Len(p))]]] :
            ds \in SUBSET Classes,
            g \in UNION {[Q -> Contents] :
                          Q \in SUBSET (ClassFiles \cup StrayFiles)} }

\* The clean trees a pass can start from: no directory yet, an empty one,
\* or one that holds a file of an earlier pass over other raw data.
CleanTrees ==
    LET stale == cleaned_dir \o <<"apple", "2.jpg">>
        empty == [p \in {} |-> "image"]
    IN  {[dirs |-> {}, files |-> empty],
         [dirs |-> {cleaned_dir}, files |-> empty]}
        \cup {[dirs  |-> {cleaned_dir, cleaned_dir \o <<"apple">>},
                files |-> [p \in {stale} |-> k]] : k \in Contents}

WellFormed(f) ==
    \A p \in DOMAIN f.files : SubSeq(p, 1, Len(p) - 1) \in f.dirs

----------------------------------------------------------------------------
(* Image Sanitizer: preprocessing_utils.remove_non_images and the entry    *)
(* point that calls it.                                                    *)

\* copytree(src, dst) of utils/file_utils: mirrors the directories and the
\* files of src below dst, keeping the relative structure.  A destination
\* that exists already is merged into (test_copytree copies twice into the
\* same destination): what it holds besides the mirrored paths stays.
copytree(f, src, dst) ==
    LET srcDirs  == {d \in f.dirs : IsUnder(d, src)}
        srcFiles == {p \in DOMAIN f.files : IsUnder(p, src)}
        copied   == {Rebase(p, src, dst) : p \in srcFiles}
        origin(q) == CHOOSE p \in srcFiles : Rebase(p, src, dst) = q
    IN  [dirs  |-> f.dirs \cup {dst} \cup {Rebase(d, src, dst) : d \in srcDirs},
         files |-> [q \in DOMAIN f.files \cup copied |->
                       IF q \in copied THEN f.files[origin(q)] ELSE f.files[q]]]

\* The listing the unlink loop runs over: the mutant lists the raw tree.
ImagePathsOfRaw(f, raw, clean) ==
    LET listing == SortSet(GlobAll(f, raw))
    IN  SelectSeq(listing, LAMBDA p : is_file(f, p))

\* image_paths: sorted(clean_dir.glob('**/*')), files only.
ImagePaths(f, raw, clean) ==
    LET listing == SortSet(GlobAll(f, clean))
    IN  SelectSeq(listing, LAMBDA p : is_file(f, p))

\* The mutant never unlinks.
NeverUnlink(f, p) == FALSE

\* image is None, for image = cv2.imread(str(image_path))
ImageIsNone(f, p) == ~Decodes(f.files[p])

\* image_path.unlink()
unlink(f, p) ==
    [f EXCEPT !.files = [q \in DOMAIN f.files \ {p} |-> f.files[q]]]

RECURSIVE CheckImages(_, _, _)
\* The loop over image_paths; returns the file system and the unlinked paths.
CheckImages(f, paths, gone) ==
    IF paths = <<>> THEN [fs |-> f, unlinked |-> gone]
    ELSE IF ImageIsNone(f, Head(paths))
         THEN CheckImages(unlink(f, Head(paths)), Tail(paths),
                          gone \cup {Head(paths)})
         ELSE CheckImages(f, Tail(paths), gone)

\* remove_non_images(raw_dir, clean_dir); the report it prints afterwards
\* changes nothing.
remove_non_images(f, raw, clean) ==
    LET c == copytree(f, raw, clean)
    IN  CheckImages(c, ImagePaths(c, raw, clean), {})

\* The mutant creates the directory whether or not it is there, and
\* fails on one that is.
MkdirStrict(f, dir) ==
    IF dir \in f.dirs THEN [ok |-> FALSE, fs |-> f]
    ELSE [ok |-> TRUE, fs |-> mkdir(f, dir)]

\* if not cleaned_dir.is_dir(): cleaned_dir.mkdir(parents=True, exist_ok=True)
EnsureCleanedDir(f, dir) ==
    IF dir \notin f.dirs THEN [ok |-> TRUE, fs |-> mkdir(f, dir)]
    ELSE [ok |-> TRUE, fs |-> f]

\* The files of the tree below dir, by relative path.
TreeFiles(f, dir) ==
    LET ps == {p \in DOMAIN f.files : IsUnder(p, dir)}
    IN  [q \in {Rebase(p, dir, <<>>) : p \in ps} |-> f.files[dir \o q]]

----------------------------------------------------------------------------
(* File Collector: train_utils.get_image_paths.                            *)

\* The generator behind `random`, as a small congruential generator: what
\* matters of it is that its output is a function of its state.
RngModulus == 31

\* random.seed(42): the state the seed sets
seed(n) == n % RngModulus

RngNext(s) == (7 * s + 5) % RngModulus

\* random._randbelow(n), for the state s the call leaves behind
randbelow(s, n) == s % n

Swap(x, i, j) == [x EXCEPT ![i] = x[j], ![j] = x[i]]

RECURSIVE ShuffleFrom(_, _, _)
\* random.shuffle(x): for i in reversed(range(1, len(x))):
\*     j = randbelow(i + 1); x[i], x[j] = x[j], x[i]
\* with i counted from 1 here.
ShuffleFrom(x, i, s) ==
    IF i < 2 THEN [list |-> x, rng |-> s]
    ELSE LET s1 == RngNext(s)
             j  == randbelow(s1, i) + 1
         IN  ShuffleFrom(Swap(x, i, j), i - 1, s1)

shuffle(x, s) == ShuffleFrom(x, Len(x), s)

Reverse(x) == [i \in 1..Len(x) |-> x[Len(x) + 1 - i]]

\* The orders in which path.glob('**/*') may yield the entries: the order
\* of the directory listing is the file system's.
GlobOrders(f, dir) ==
    LET asc == SortSet(GlobAll(f, dir))
    IN  {asc, Reverse(asc),
         IF asc = <<>> THEN asc ELSE Append(Tail(asc), Head(asc))}

\* The mutant shuffles without seeding the generator first.
GetImagePathsUnseeded(f, path, listing, s) ==
    LET files == SelectSeq(sorted(listing), LAMBDA p : is_file(f, p))
        sh    == shuffle(files, s)
    IN  [paths |-> sh.list, error |-> "none", rng |-> sh.rng]

\* get_image_paths(path), for the listing glob yields and the generator's
\* state s; returns the paths and the generator's state afterwards.  glob
\* on a path that is no directory yields nothing and raises nothing.
get_image_paths(f, path, listing, s) ==
    LET files == SelectSeq(sorted(listing), LAMBDA p : is_file(f, p))
        sh    == shuffle(files, seed(42))
    IN  [paths |-> sh.list, error |-> "none", rng |-> sh.rng]

\* Number of calls of get_image_paths the model follows.
MaxCalls == 2

\* The trees the collector is run on: the root missing, or a root with
\* class directories, files in them and possibly a file of its own.
ColTrees ==
    {[dirs |-> {}, files |-> <<>>]} \cup
    {[dirs  |-> {Rebase(d, raw_dir, cleaned_dir) : d \in t.dirs},
      files |-> [p \in {Rebase(q, raw_dir, cleaned_dir) : q \in DOMAIN t.files}
                    |-> "image"]] :
        t \in {u \in RawTrees : WellFormed(u)
                                /\ \A q \in DOMAIN u.files : u.files[q] = "image"}}

InitCollector ==
    /\ EncIdle
    /\ DsIdle
    /\ LayIdle
    /\ TrainIdle
    /\ SanIdle
    /\ SplitIdle
    /\ ImgIdle
    /\ cfs \in ColTrees
    /\ rng \in 0..(RngModulus - 1)
    /\ collected = <<>>

\* image_paths = get_image_paths(cleaned_dir), as the training entry point
\* calls it.
Collect ==
    /\ Len(collected) < MaxCalls
    /\ \E listing \in GlobOrders(cfs, cleaned_dir) :
         LET r == get_image_paths(cfs, cleaned_dir, listing, rng)
         IN  /\ collected' = Append(collected, [paths |-> r.paths, error |-> r.error])
             /\ rng' = r.rng
    /\ UNCHANGED <<cfs, colOthers>>

\* Any other use of `random` between two calls (the prediction entry point
\* draws with random.choice).
OtherRandomUse ==
    /\ Len(collected) < MaxCalls
    /\ rng' \in 0..(RngModulus - 1) \ {rng}
    /\ UNCHANGED <<cfs, collected, colOthers>>

NextCollector == Collect \/ OtherRandomUse

SpecCollector == InitCollector /\ [][NextCollector]_vars

----------------------------------------------------------------------------
(* Dataset Builder: the split of train_utils.get_model_input.              *)

\* n_test = ceil(test_size * n_samples) for test_size = 0.25
n_test(n) == (n + 3) \div 4

\* n_train = n_samples - n_test
n_train(n) == n - n_test(n)

\* The mutant draws the permutation from numpy's global generator
\* (random_state left out).
TrainTestSplitUnseeded(n, strict, s) ==
    IF strict /\ n_train(n) = 0
    THEN [error |-> "ValueError", train |-> <<>>, test |-> <<>>]
    ELSE LET permutation == shuffle([i \in 1..n |-> i], s).list
         IN  [error |-> "none",
              test  |-> SubSeq(permutation, 1, n_test(n)),
              train |-> SubSeq(permutation, n_test(n) + 1, n_test(n) + n_train(n))]

\* train_test_split(..., test_size=0.25, random_state=42) over n samples:
\* the indices of the two subsets.  The permutation comes from a generator
\* of the call's own, seeded with 42.  A release of the library that
\* validates the sizes raises when the training set would be empty.
train_test_split(n, strict, s) ==
    IF strict /\ n_train(n) = 0
    THEN [error |-> "ValueError", train |-> <<>>, test |-> <<>>]
    ELSE LET permutation == shuffle([i \in 1..n |-> i], seed(42)).list
         IN  [error |-> "none",
              test  |-> SubSeq(permutation, 1, n_test(n)),
              train |-> SubSeq(permutation, n_test(n) + 1, n_test(n) + n_train(n))]

\* get_model_input(data, labels): the two subsets of the data.
get_model_input(d, strict, s) ==
    LET sp == train_test_split(Len(d), strict, s)
    IN  [error   |-> sp.error,
         x_train |-> [k \in 1..Len(sp.train) |-> d[sp.train[k]]],
         x_val   |-> [k \in 1..Len(sp.test) |-> d[sp.test[k]]]]

\* Largest number of samples of a dataset of the model.
MaxSamples == 5

\* Number of calls of get_model_input the model follows.
MaxSplitCalls == 2

\* The datasets: up to MaxSamples distinct samples in any order.
Datasets ==
    UNION {{d \in [1..n -> 1..n] : \A i, j \in 1..n : d[i] = d[j] => i = j} :
              n \in 0..MaxSamples}

InitSplit ==
    /\ EncIdle
    /\ DsIdle
    /\ LayIdle
    /\ TrainIdle
    /\ SanIdle
    /\ ColIdle
    /\ ImgIdle
    /\ data \in Datasets
    /\ emptyTrainRaises \in BOOLEAN
    /\ npRng = 0
    /\ splits = <<>>

\* x_train, x_val, ... = get_model_input(data, labels)
GetModelInput ==
    /\ Len(splits) < MaxSplitCalls
    /\ splits' = Append(splits, get_model_input(data, emptyTrainRaises, npRng))
    /\ UNCHANGED <<data, emptyTrainRaises, npRng, splitOthers>>

\* Any other draw from numpy's global generator between two calls.
OtherNumpyRandomUse ==
    /\ Len(splits) < MaxSplitCalls
    /\ npRng' \in 0..(RngModulus - 1) \ {npRng}
    /\ UNCHANGED <<data, emptyTrainRaises, splits, splitOthers>>

NextSplit == GetModelInput \/ OtherNumpyRandomUse

SpecSplit == InitSplit /\ [][NextSplit]_vars

----------------------------------------------------------------------------
(* The image transforms: the one of train_utils.get_data_and_labels and    *)
(* preprocessing_utils.preprocess_image.                                   *)
(*                                                                         *)
(* An image or tensor is [shape, lo, hi]: its shape and bounds within      *)
(* which all its values lie; an image with lo = hi has that one value      *)
(* everywhere.  Values are fractions <<numerator, denominator>>.           *)

Frac(n) == <<n, 1>>

\* x / k
DivBy(x, k) == <<x[1], x[2] * k>>

FracLeq(x, y) == x[1] * y[2] <= y[1] * x[2]

\* cv2.resize(image, (28, 28)) of a uint8 image: the shape becomes
\* (28, 28, channels); every value is a weighted mean of values of the
\* image, rounded to uint8, so it stays within the image's bounds and is
\* the image's value when the image has only one.
cv2_resize(img) ==
    [shape |-> <<28, 28, img.shape[3]>>, lo |-> img.lo, hi |-> img.hi]

\* img_to_array / np.array(data, dtype='float'): the same values as floats
img_to_array(img) ==
    [shape |-> img.shape, lo |-> Frac(img.lo), hi |-> Frac(img.hi)]

\* skimage.transform.resize(image, output_shape=(28, 28), mode='reflect',
\* anti_aliasing=True) of a uint8 image: the output shape is completed
\* with the channels of the image; the image is converted to floats in
\* [0, 1] (value / 255); smoothing and interpolation are weighted means.
skimage_resize(img) ==
    [shape |-> <<28, 28, img.shape[3]>>,
     lo |-> DivBy(Frac(img.lo), 255), hi |-> DivBy(Frac(img.hi), 255)]

\* tensor / 255.0
Div255(t) == [t EXCEPT !.lo = DivBy(@, 255), !.hi = DivBy(@, 255)]

\* The mutant forgets to resize.
PreprocessNoResize(img) == Div255(img_to_array(img))

\* preprocess_image(image)
preprocess_image(img) ==
    LET preprocessed_image == skimage_resize(img)
    IN  Div255(preprocessed_image)

\* One sample of get_data_and_labels: cv2.resize, img_to_array, and the
\* division of the stacked data by 255.0.
TrainingSample(img) == Div255(img_to_array(cv2_resize(img)))

\* open_image(path) of utils/image_utils: the decoded file, as
\* cv2.imread gives it (uint8, three channels).
open_image(img) == img

\* The decoded images: uint8 values, three channels, several sizes.
Images ==
    {[shape |-> <<sz[1], sz[2], 3>>, lo |-> l, hi |-> h] :
        sz \in {<<115, 73>>, <<73, 115>>, <<28, 28>>, <<1, 1>>},
        l \in {0, 1, 127, 255}, h \in {0, 1, 127, 255}}

InitTransforms ==
    /\ EncIdle
    /\ DsIdle
    /\ LayIdle
    /\ TrainIdle
    /\ SanIdle
    /\ ColIdle
    /\ SplitIdle
    /\ image \in {i \in Images : i.lo <= i.hi}
    /\ trainTensor = <<>>
    /\ predictTensor = <<>>

\* get_data_and_labels on the image's path: the training sample.
BuildTrainingSample ==
    /\ trainTensor = <<>>
    /\ trainTensor' = <<TrainingSample(image)>>
    /\ UNCHANGED <<image, predictTensor, imgOthers>>

\* The prediction entry point on the image's path: open_image, then
\* preprocess_image.
PreprocessForPrediction ==
    /\ predictTensor = <<>>
    /\ predictTensor' = <<preprocess_image(open_image(image))>>
    /\ UNCHANGED <<image, trainTensor, imgOthers>>

NextTransforms == BuildTrainingSample \/ PreprocessForPrediction

SpecTransforms == InitTransforms /\ [][NextTransforms]_vars

----------------------------------------------------------------------------
(* Trainer: train_utils.train_model, with the loop of fit_generator.       *)

\* batch_size=32, the default of train_model
batch_size == 32

\* steps_per_epoch=len(x_train) // batch_size, for the training subset the
\* split leaves of n samples
steps_per_epoch(n) == n_train(n) \div batch_size

\* Largest epochs argument of the model.
MaxEpochs == 3

\* The sizes of the datasets trained on: 20 samples per class for two
\* classes, and sizes whose training subset fills one and two batches.
DatasetSizes == {40, 44, 88}

InitTrainer ==
    /\ EncIdle
    /\ DsIdle
    /\ LayIdle
    /\ SanIdle
    /\ ColIdle
    /\ SplitIdle
    /\ ImgIdle
    /\ nSamples \in DatasetSizes
    /\ epochs \in 0..MaxEpochs
    /\ tpc = "start"
    /\ epoch = 0
    /\ steps_done = 0
    /\ total_steps = 0
    /\ epoch_logs = {}
    /\ history = [m \in Metrics |-> <<>>]
    /\ \E before \in {<<FALSE, "none">>, <<TRUE, "none">>, <<TRUE, "earlier">>} :
          /\ model_dir_exists = before[1]
          /\ artifact = before[2]

\* model.fit_generator(...) starts: epoch_logs = {}, no epoch run yet.
FitBegin ==
    /\ tpc = "start"
    /\ tpc' = IF epochs = 0 THEN "save" ELSE "fit"
    /\ epoch_logs' = {}
    /\ UNCHANGED <<nSamples, epochs, epoch, steps_done, total_steps, history,
                   model_dir_exists, artifact, trainOthers>>

\* One augmented batch: while steps_done < steps_per_epoch.  The batch logs
\* the training metrics; the batch that ends the epoch is followed by the
\* evaluation on the validation data.
TrainStep ==
    /\ tpc = "fit"
    /\ steps_done < steps_per_epoch(nSamples)
    /\ steps_done' = steps_done + 1
    /\ total_steps' = total_steps + 1
    /\ epoch_logs' = epoch_logs \cup {"loss", "acc"} \cup
                        (IF steps_done + 1 >= steps_per_epoch(nSamples)
                         THEN {"val_loss", "val_acc"} ELSE {})
    /\ UNCHANGED <<nSamples, epochs, tpc, epoch, history, model_dir_exists,
                   artifact, trainOthers>>

\* callbacks.on_epoch_end(epoch, epoch_logs): History appends the value of
\* every metric that was logged.
EpochEnd ==
    /\ tpc = "fit"
    /\ steps_done >= steps_per_epoch(nSamples)
    /\ history' = [m \in Metrics |->
                     IF m \in epoch_logs THEN Append(history[m], epoch)
                     ELSE history[m]]
    /\ epoch' = epoch + 1
    /\ steps_done' = 0
    /\ tpc' = IF epoch + 1 < epochs THEN "fit" ELSE "save"
    /\ UNCHANGED <<nSamples, epochs, total_steps, epoch_logs, model_dir_exists,
                   artifact, trainOthers>>

\* With verbose=1 the progress bar of an epoch of zero steps takes
\* log10(0) at the end of the epoch, and releases of the library raise
\* OverflowError there: train_model ends without saving.
ProgbarOverflow ==
    /\ tpc = "fit"
    /\ steps_per_epoch(nSamples) = 0
    /\ tpc' = "error"
    /\ UNCHANGED <<nSamples, epochs, epoch, steps_done, total_steps, epoch_logs,
                   history, model_dir_exists, artifact, trainOthers>>

\* if not model_dir.is_dir(): model_dir.mkdir(...); model.save(model_path)
SaveModel ==
    /\ tpc = "save"
    /\ model_dir_exists' = TRUE
    /\ artifact' = "trained"
    /\ tpc' = "done"
    /\ UNCHANGED <<nSamples, epochs, epoch, steps_done, total_steps, epoch_logs,
                   history, trainOthers>>

NextTrainer == FitBegin \/ TrainStep \/ EpochEnd \/ ProgbarOverflow \/ SaveModel

SpecTrainer == InitTrainer /\ [][NextTrainer]_vars

----------------------------------------------------------------------------
(* The storage layout: the directories the entry points derive from the    *)
(* location of their own source file.                                      *)

\* Path.parents[n]: the path without its last n + 1 parts
parents(p, n) == SubSeq(p, 1, Len(p) - (n + 1))

\* Path.parent
parent(p) == parents(p, 0)

\* __file__ of each module, for the directory the package is installed in
PreprocessingMainFile(root) == root \o <<"fruit_classifier", "preprocessing", "__main__.py">>
TrainMainFile(root) == root \o <<"fruit_classifier", "train", "__main__.py">>
TrainUtilsFile(root) == root \o <<"fruit_classifier", "train", "train_utils.py">>
PredictMainFile(root) == root \o <<"fruit_classifier", "predict", "__main__.py">>

\* preprocessing main: Path(__file__).absolute().parents[2] / generated_data
PreprocessingGeneratedDataDir(root) ==
    parents(PreprocessingMainFile(root), 2) \o <<"generated_data">>

PreprocessingRawDir(root) == PreprocessingGeneratedDataDir(root) \o <<"raw_data">>

PreprocessingCleanedDir(root) ==
    PreprocessingGeneratedDataDir(root) \o <<"cleaned_data">>

\* training main: Path(__file__).absolute().parents[1] / generated_data
TrainGeneratedDataDir(root) ==
    parents(TrainMainFile(root), 1) \o <<"generated_data">>

TrainCleanedDir(root) == TrainGeneratedDataDir(root) \o <<"cleaned_data">>

\* train_model: Path(__file__).absolute().parent / generated_data / models
ModelPath(root) ==
    parent(TrainUtilsFile(root)) \o <<"generated_data", "models", "model.h5">>

\* plot_training: Path(__file__).absolute().parent / generated_data / plots
PlotPath(root) ==
    parent(TrainUtilsFile(root)) \o <<"generated_data", "plots", "training_history.png">>

\* prediction main: Path(__file__).absolute().parents[2] / generated_data
PredictCleanedDir(root) ==
    parents(PredictMainFile(root), 2) \o <<"generated_data", "cleaned_data">>

\* Number of runs of entry points the model follows.
MaxLaunches == 3

\* Where the package may be installed.
InstallRoots ==
    {<<"srv">>, <<"home", "user", "fruit-classifier">>, <<"opt", "app">>}

InitLayout ==
    /\ EncIdle
    /\ DsIdle
    /\ SanIdle
    /\ ColIdle
    /\ SplitIdle
    /\ ImgIdle
    /\ TrainIdle
    /\ installRoot \in InstallRoots
    /\ launched = <<>>
    /\ sanitizedDirs = {}
    /\ trainInputs = {}
    /\ trainOutputs = {}
    /\ predictInputs = {}

\* python -m fruit_classifier.preprocessing
RunPreprocessing ==
    /\ Len(launched) < MaxLaunches
    /\ launched' = Append(launched, "preprocessing")
    /\ sanitizedDirs' = sanitizedDirs \cup {PreprocessingCleanedDir(installRoot)}
    /\ UNCHANGED <<installRoot, trainInputs, trainOutputs, predictInputs, layOthers>>

\* python -m fruit_classifier.train
RunTraining ==
    /\ Len(launched) < MaxLaunches
    /\ launched' = Append(launched, "train")
    /\ trainInputs' = trainInputs \cup {TrainCleanedDir(installRoot)}
    /\ trainOutputs' = trainOutputs \cup {ModelPath(installRoot), PlotPath(installRoot)}
    /\ UNCHANGED <<installRoot, sanitizedDirs, predictInputs, layOthers>>

\* python -m fruit_classifier.predict, without an image path
RunPrediction ==
    /\ Len(launched) < MaxLaunches
    /\ launched' = Append(launched, "predict")
    /\ predictInputs' = predictInputs \cup {PredictCleanedDir(installRoot)}
    /\ UNCHANGED <<installRoot, sanitizedDirs, trainInputs, trainOutputs, layOthers>>

NextLayout == RunPreprocessing \/ RunTraining \/ RunPrediction

SpecLayout == InitLayout /\ [][NextLayout]_vars

----------------------------------------------------------------------------
(* Label encoding: the labels of train_utils.get_model_input and the       *)
(* class count the training entry point hands to get_model.                *)

\* The labels a path can carry: the class directories, and the root's own
\* name for a file that lies directly in the root.
LabelNames == Classes \cup {"cleaned_data"}

\* LabelEncoder().fit(labels).classes_: the distinct labels, sorted
classes_(ls) ==
    LET srt == SortSet({<<l>> : l \in Range(ls)})
    IN  [i \in 1..Len(srt) |-> srt[i][1]]

\* LabelEncoder().fit_transform(labels): the index of each label in
\* classes_, counted from 0
fit_transform(ls) ==
    [i \in 1..Len(ls) |->
        (CHOOSE k \in 1..Len(classes_(ls)) : classes_(ls)[k] = ls[i]) - 1]

Max(S) == CHOOSE x \in S : \A y \in S : y <= x

\* The mutant leaves num_classes out: the width is the largest index of
\* the subset plus one.
ToCategoricalInferred(y, num_classes) ==
    LET width == IF y = <<>> THEN 0 ELSE Max(Range(y)) + 1
    IN  [k \in 1..Len(y) |-> [j \in 1..width |-> IF j - 1 = y[k] THEN 1 ELSE 0]]

\* to_categorical(y, num_classes=num_classes): one row per label, with a 1
\* in the column of the label's index
to_categorical(y, num_classes) ==
    [k \in 1..Len(y) |-> [j \in 1..num_classes |-> IF j - 1 = y[k] THEN 1 ELSE 0]]

\* get_model_input(data, labels): the encoding and the label subsets.
\* train_test_split cuts the encoded labels at the indices of the data.
get_model_input_labels(ls, strict, s) ==
    LET encoded_labels == fit_transform(ls)
        num_classes == Cardinality(Range(ls))
        sp == train_test_split(Len(ls), strict, s)
        y_train == [k \in 1..Len(sp.train) |-> encoded_labels[sp.train[k]]]
        y_val == [k \in 1..Len(sp.test) |-> encoded_labels[sp.test[k]]]
    IN  [error   |-> sp.error,
         classes |-> classes_(ls),
         y_train |-> IF sp.error = "none" THEN to_categorical(y_train, num_classes)
                     ELSE <<>>,
         y_val   |-> IF sp.error = "none" THEN to_categorical(y_val, num_classes)
                     ELSE <<>>]

InitEncoding ==
    /\ SanIdle
    /\ ColIdle
    /\ ImgIdle
    /\ TrainIdle
    /\ LayIdle
    /\ DsIdle
    /\ \E n \in 0..MaxSamples :
          /\ data = [i \in 1..n |-> i]
          /\ labels \in [1..n -> LabelNames]
    /\ emptyTrainRaises \in BOOLEAN
    /\ npRng \in {0, 1}
    /\ splits = <<>>
    /\ modelInput = <<>>
    /\ n_classes = <<>>

\* x_train, x_val, y_train, y_val, image_generator =
\*     get_model_input(data, labels), in the training entry point
BuildModelInput ==
    /\ modelInput = <<>>
    /\ splits' = Append(splits, get_model_input(data, emptyTrainRaises, npRng))
    /\ modelInput' = <<get_model_input_labels(labels, emptyTrainRaises, npRng)>>
    /\ UNCHANGED <<data, emptyTrainRaises, npRng, labels, n_classes, encOthers>>

\* model = get_model(len(set(labels))), once get_model_input has returned
GetModel ==
    /\ modelInput # <<>>
    /\ modelInput[1].error = "none"
    /\ n_classes = <<>>
    /\ n_classes' = <<Cardinality(Range(labels))>>
    /\ UNCHANGED <<splitVars, labels, modelInput, encOthers>>

NextEncoding == BuildModelInput \/ GetModel

SpecEncoding == InitEncoding /\ [][NextEncoding]_vars

----------------------------------------------------------------------------
(* Dataset loading: train_utils.get_data_and_labels.                       *)

\* cv2.imread(str(image_path)): the decoded image (uint8, three channels),
\* or None, written <<>>, for a file that does not decode
imread(f, p) ==
    IF p \in DOMAIN f.files /\ Decodes(f.files[p])
    THEN <<[shape |-> <<115, 73, 3>>, lo |-> 0, hi |-> 255]>>
    ELSE <<>>

\* The mutant passes over a file that does not decode and goes on with the
\* next path.
GetDataSkipUndecodable(f, paths) ==
    LET ok == SelectSeq(paths, LAMBDA p : imread(f, p) # <<>> /\ Len(p) >= 2)
    IN  [error  |-> "none",
         data   |-> [i \in 1..Len(ok) |->
                        [image |-> ok[i], tensor |-> TrainingSample(imread(f, ok[i])[1])]],
         labels |-> [i \in 1..Len(ok) |-> ok[i][Len(ok[i]) - 1]]]

\* The loop of get_data_and_labels from the i-th path on, with the lists
\* built so far.  cv2.resize of None raises cv2.error; parts[-2] of a path
\* of one part raises IndexError; either ends the call without a result.
RECURSIVE LoadFrom(_, _, _, _, _)
LoadFrom(f, paths, i, data_, labels_) ==
    IF i > Len(paths)
    THEN [error |-> "none", data |-> data_, labels |-> labels_]
    ELSE LET image_path == paths[i]
             read == imread(f, image_path)   \* the code's `image`
         IN  IF read = <<>>
             THEN [error |-> "cv2.error", data |-> <<>>, labels |-> <<>>]
             ELSE IF Len(image_path) < 2
             THEN [error |-> "IndexError", data |-> <<>>, labels |-> <<>>]
             ELSE LoadFrom(f, paths, i + 1,
                           Append(data_, [image  |-> image_path,
                                          tensor |-> TrainingSample(read[1])]),
                           Append(labels_, image_path[Len(image_path) - 1]))

\* get_data_and_labels(image_paths): each entry of data is the tensor of
\* an image, kept with the path of the image it was read from
get_data_and_labels(f, paths) == LoadFrom(f, paths, 1, <<>>, <<>>)

\* The trees under the cleaned directory get_data_and_labels can meet:
\* class directories and files that decode or do not (the sanitizer may
\* not have run, or files were added after it).
DsTrees ==
    {[dirs  |-> {Rebase(d, raw_dir, cleaned_dir) : d \in t.dirs},
      files |-> [p \in {Rebase(q, raw_dir, cleaned_dir) : q \in DOMAIN t.files}
                    |-> t.files[Rebase(p, cleaned_dir, raw_dir)]]] :
        t \in {u \in RawTrees : WellFormed(u)}}

InitDataset ==
    /\ SanIdle
    /\ ColIdle
    /\ SplitIdle
    /\ ImgIdle
    /\ TrainIdle
    /\ LayIdle
    /\ EncIdle
    /\ dsFs \in DsTrees
    /\ image_paths =
          get_image_paths(dsFs, cleaned_dir, SortSet(GlobAll(dsFs, cleaned_dir)), 0).paths
    /\ loaded = <<>>

\* data, labels = get_data_and_labels(image_paths), in the training entry
\* point
LoadData ==
    /\ loaded = <<>>
    /\ loaded' = <<get_data_and_labels(dsFs, image_paths)>>
    /\ UNCHANGED <<dsFs, image_paths, dsOthers>>

NextDataset == LoadData

SpecDataset == InitDataset /\ [][NextDataset]_vars

\* Number of passes of the sanitizer the model follows.
MaxRuns == 2

InitSanitizer ==
    /\ EncIdle
    /\ DsIdle
    /\ LayIdle
    /\ TrainIdle
    /\ ColIdle
    /\ SplitIdle
    /\ ImgIdle
    /\ \E r \in {t \in RawTrees : WellFormed(t)} :
         \E c \in CleanTrees :
            fs = [dirs  |-> r.dirs \cup c.dirs,
                  files |-> [p \in DOMAIN r.files \cup DOMAIN c.files |->
                               IF p \in DOMAIN r.files THEN r.files[p]
                               ELSE c.files[p]]]
    /\ fs0 = fs
    /\ runs = 0
    /\ status = "ok"
    /\ cleanAfter = <<>>
    /\ unlinked = {}

\* One run of the preprocessing entry point: main().
Sanitize ==
    /\ runs < MaxRuns
    /\ status = "ok"
    /\ LET made == EnsureCleanedDir(fs, cleaned_dir)
       IN  IF ~made.ok
           THEN /\ status' = "error"
                /\ fs' = made.fs
                /\ UNCHANGED <<cleanAfter, unlinked>>
           ELSE LET r == remove_non_images(made.fs, raw_dir, cleaned_dir)
                IN  /\ fs' = r.fs
                    /\ unlinked' = unlinked \cup r.unlinked
                    /\ cleanAfter' = Append(cleanAfter, TreeFiles(r.fs, cleaned_dir))
                    /\ status' = "ok"
    /\ runs' = runs + 1
    /\ UNCHANGED <<fs0, sanOthers>>

NextSanitizer == Sanitize

SpecSanitizer == InitSanitizer /\ [][NextSanitizer]_vars

----------------------------------------------------------------------------
(* Claims about the sanitizer.                                             *)

\* The decodable files among those of a tree.
DecodableOf(tree) == [q \in {x \in DOMAIN tree : Decodes(tree[x])} |-> tree[q]]

\* Number of files of a tree directly inside class directory c.
CountIn(tree, c) == Cardinality({q \in DOMAIN tree : Len(q) = 2 /\ q[1] = c})

\* C1: a pass never deletes or modifies anything under raw_dir: the raw
\* tree (directories and files with their contents) is what it was before
\* the first pass, and every unlinked path lies under clean_dir.
C1_RawUntouched ==
    /\ TreeFiles(fs, raw_dir) = TreeFiles(fs0, raw_dir)
    /\ {d \in fs.dirs : IsUnder(d, raw_dir)} = {d \in fs0.dirs : IsUnder(d, raw_dir)}
    /\ \A p \in unlinked : IsUnder(p, cleaned_dir) /\ ~IsUnder(p, raw_dir)

\* A pass has unlinked a file, and the raw tree holds undecodable files.
C1_Witness ==
    /\ runs >= 1
    /\ unlinked # {}
    /\ \E p \in DOMAIN fs.files : IsUnder(p, raw_dir) /\ ~Decodes(fs.files[p])

\* C2: after a pass against an initially empty clean directory the files
\* of the clean tree are exactly the decodable raw files, at the same
\* relative paths; so every class keeps as many files as it has decodable
\* raw files, and no file left in the clean tree fails to decode.
C2_CleanIsDecodableRaw ==
    (runs >= 1 /\ status = "ok" /\ TreeFiles(fs0, cleaned_dir) = <<>>) =>
        /\ cleanAfter[1] = DecodableOf(TreeFiles(fs0, raw_dir))
        /\ \A c \in Classes :
              CountIn(cleanAfter[1], c) =
                  CountIn(DecodableOf(TreeFiles(fs0, raw_dir)), c)
        /\ \A q \in DOMAIN cleanAfter[1] : Decodes(cleanAfter[1][q])

\* After one pass: apple had a valid and a corrupt file, banana a valid
\* one; apple keeps one file and banana one.
C2_Witness ==
    /\ runs = 1
    /\ status = "ok"
    /\ CountIn(TreeFiles(fs0, raw_dir), "apple") = 2
    /\ CountIn(DecodableOf(TreeFiles(fs0, raw_dir)), "apple") = 1
    /\ CountIn(DecodableOf(TreeFiles(fs0, raw_dir)), "banana") >= 1
    /\ CountIn(cleanAfter[1], "apple") = 1

----------------------------------------------------------------------------
(* Claims about the file collector.                                        *)

\* The regular files below the collector's root.
FilesBelow(f, dir) == {p \in DOMAIN f.files : IsUnder(p, dir)}

\* C4: get_image_paths is deterministic: all calls on the unchanged
\* directory return the same sequence, whatever the generator was used for
\* in between, and each sequence is a permutation of exactly the regular
\* files below the root: no directory, no duplicate, none missing.
C4_Deterministic ==
    \A i \in 1..Len(collected) :
        /\ collected[i].paths = collected[1].paths
        /\ Range(collected[i].paths) = FilesBelow(cfs, cleaned_dir)
        /\ Len(collected[i].paths) = Cardinality(FilesBelow(cfs, cleaned_dir))
        /\ \A k \in 1..Len(collected[i].paths) : collected[i].paths[k] \notin cfs.dirs

\* Two calls returned three or more files of two classes, and the
\* generator was in another state before the second call than before the
\* first.
C4_Witness ==
    /\ Len(collected) = 2
    /\ Len(collected[2].paths) >= 3
    /\ \E k \in 1..Len(collected[2].paths) : collected[2].paths[k][2] = "banana"
    /\ collected[2].paths # SortSet(FilesBelow(cfs, cleaned_dir))

\* C9: get_image_paths fails with a not-found error when the root does not
\* exist, and returns an empty sequence without error when the root exists
\* and holds no file.
C9_MissingRootFails ==
    \A i \in 1..Len(collected) :
        /\ cleaned_dir \notin cfs.dirs => collected[i].error = "NotFoundError"
        /\ (cleaned_dir \in cfs.dirs /\ FilesBelow(cfs, cleaned_dir) = {}) =>
               (collected[i].error = "none" /\ collected[i].paths = <<>>)

----------------------------------------------------------------------------
(* Claims about the split.                                                 *)

\* The split r of the dataset is a partition of it of the sizes asked for.
GoodSplit(r) ==
    /\ r.error = "none"
    /\ Range(r.x_train) \cap Range(r.x_val) = {}
    /\ Range(r.x_train) \cup Range(r.x_val) = Range(data)
    /\ Len(r.x_train) + Len(r.x_val) = Len(data)
    /\ 4 * Len(r.x_val) - Len(data) \in 0..3

\* C5, as stated: for every number of samples, the very small ones
\* included, each call splits the samples into disjoint subsets that cover
\* them, the validation subset a quarter of them within rounding, and all
\* calls on the same input give the same split.
C5_SplitForEveryN ==
    \A i \in 1..Len(splits) : GoodSplit(splits[i]) /\ splits[i] = splits[1]

\* C5, amended: the same for every dataset of two samples or more.
C5_SplitFromTwoSamples ==
    Len(data) >= 2 =>
        \A i \in 1..Len(splits) : GoodSplit(splits[i]) /\ splits[i] = splits[1]

\* Two calls split five samples, numpy's global generator used in between,
\* into three and two.
C5_Witness ==
    /\ Len(data) = 5
    /\ Len(splits) = 2
    /\ npRng # 0
    /\ Len(splits[2].x_train) = 3
    /\ Len(splits[2].x_val) = 2

----------------------------------------------------------------------------
(* Claims about the image transforms.                                      *)

\* C6: the transform of the training dataset and the transform applied at
\* prediction time are the same: for every image both give the same
\* tensor, on the same value scale.  Two tensors are the same only if
\* their shapes agree and the ranges of their values meet.
C6_SameTransform ==
    (trainTensor # <<>> /\ predictTensor # <<>>) =>
        LET t == trainTensor[1]
            q == predictTensor[1]
        IN  /\ t.shape = q.shape
            /\ FracLeq(t.lo, q.hi)
            /\ FracLeq(q.lo, t.hi)

\* C7: for every three-channel image of any height and width,
\* preprocess_image returns a tensor of shape (28, 28, 3) whose values
\* all lie in [0, 1].
C7_ShapeAndRange ==
    (predictTensor # <<>> /\ image.shape[3] = 3) =>
        LET q == predictTensor[1]
        IN  /\ q.shape = <<28, 28, 3>>
            /\ FracLeq(Frac(0), q.lo)
            /\ FracLeq(q.lo, q.hi)
            /\ FracLeq(q.hi, Frac(1))

\* A 115 x 73 x 3 image with values from 0 to 255 went through
\* preprocess_image.
C7_Witness ==
    /\ image.shape = <<115, 73, 3>>
    /\ image.lo = 0
    /\ image.hi = 255
    /\ predictTensor # <<>>
    /\ predictTensor[1].shape = <<28, 28, 3>>

----------------------------------------------------------------------------
(* Claims about the trainer.                                               *)

\* C8: training on the dataset of 40 samples (20 per class, two classes,
\* batch size 32) for E epochs ends without error, runs E epochs of
\* floor(train size / batch size) steps each, returns a history of exactly
\* E entries per metric, and writes the model artifact only after the last
\* epoch, the directory created if absent and an earlier artifact
\* overwritten.
C8_TrainingRun ==
    nSamples = 40 =>
        /\ tpc # "error"
        /\ tpc \in {"start", "fit", "save"} => artifact # "trained"
        /\ tpc = "done" =>
              /\ epoch = epochs
              /\ total_steps = epochs * steps_per_epoch(nSamples)
              /\ \A m \in Metrics : Len(history[m]) = epochs
              /\ model_dir_exists
              /\ artifact = "trained"

----------------------------------------------------------------------------
(* Claims about the storage layout.                                        *)

\* C10: all entry points use one generated_data directory: the
\* cleaned_data directory training reads, and the one prediction samples,
\* is the one preprocessing wrote, and the model and the plot go to
\* models/model.h5 and plots/training_history.png of the same
\* generated_data directory, so that training after preprocessing sees
\* the sanitized files.
C10_OneLayout ==
    \A cleaned \in sanitizedDirs :
        LET generated_data_dir == parent(cleaned)
        IN  /\ \A d \in trainInputs \cup predictInputs : d = cleaned
            /\ trainOutputs \subseteq
                  {generated_data_dir \o <<"models", "model.h5">>,
                   generated_data_dir \o <<"plots", "training_history.png">>}

----------------------------------------------------------------------------
(* Claims about the label encoding.                                        *)

\* Row is a one-hot row of width k with its 1 at index idx (from 0).
OneHotAt(row, k, idx) ==
    /\ Len(row) = k
    /\ \A j \in 1..k : row[j] = IF j - 1 = idx THEN 1 ELSE 0
    /\ Cardinality({j \in 1..Len(row) : row[j] = 1}) = 1

\* The index (from 0) the encoding cls gives label l.
IndexOf(cls, l) == (CHOOSE k \in 1..Len(cls) : cls[k] = l) - 1

----------------------------------------------------------------------------
(* Claims about the dataset loading.                                       *)

\* Every file of the path list decodes.
AllDecode == \A i \in 1..Len(image_paths) : Decodes(dsFs.files[image_paths[i]])

\* l is the name of the directory of the tree that holds the file p.
IsParentName(p, l) ==
    \E d \in dsFs.dirs : /\ p = Append(d, p[Len(p)])
                         /\ l = d[Len(d)]

\* C12: when every file of the path list decodes, get_data_and_labels
\* returns data and labels as long as the path list, in the order of the
\* paths, and the i-th label is the name of the parent directory of the
\* i-th path; when a file does not decode, the call fails with an error
\* and returns no dataset.
C12_AlignedOrError ==
    loaded # <<>> =>
        LET r == loaded[1]
        IN  IF AllDecode
            THEN /\ r.error = "none"
                 /\ Len(r.data) = Len(image_paths)
                 /\ Len(r.labels) = Len(image_paths)
                 /\ \A i \in 1..Len(image_paths) :
                       /\ r.data[i].image = image_paths[i]
                       /\ IsParentName(image_paths[i], r.labels[i])
            ELSE /\ r.error # "none"
                 /\ r.data = <<>>
                 /\ r.labels = <<>>

\* At least three files of two classes were loaded, all of them decoded.
C12_Witness ==
    /\ loaded # <<>>
    /\ loaded[1].error = "none"
    /\ Len(image_paths) >= 3
    /\ {"apple", "banana"} \subseteq Range(loaded[1].labels)

====
